---- MODULE Spec2Model ----
(***************************************************************************)
(* PyVirtuCamera, virtucamera/vc_base.py: the VCBase interface between a   *)
(* host scene and virtucamera.VCServer.                                    *)
(*                                                                         *)
(* VCBase is an abstract class.  A method marked @abstractmethod has the   *)
(* body `pass` and is overridden by every instance, so it is modelled by   *)
(* the contract its docstring states ("Must return ...", "Must set ...").  *)
(* A method that is not abstract is inherited as written by every instance *)
(* that does not override it, so its body is modelled as the code has it   *)
(* (`pass` returns None, execute_script returns False).                    *)
(***************************************************************************)
EXTENDS Integers, Sequences, FiniteSets, TLC

(* ------------------------------ bounds -------------------------------- *)
MaxLen == 2
MaxBuffers == 2
NumScripts == 3
MaxInflight == 2
MaxLog == 3
MaxMissing == 1
MaxOptional == 1

\* The names a scene camera can have.
CamNames == {"CamA", "CamB"}
\* The frame numbers a keyframe write is called with.
Frames == {1, 10}
\* A focal length or a matrix of a keyframe write.  The model keeps which
\* frames carry a key, not the values: of the values sequence only the length
\* is read.
KeyValue == 20
ValueSeqs == {[i \in 1..n |-> KeyValue] : n \in 0..MaxLen}

\* The sizes the viewport can have.
Sizes == {<<640, 480>>, <<800, 600>>}
\* The pixel buffers an adapter can allocate, by address; 0 is no buffer.
Buffers == 1..MaxBuffers
NoBuffer == 0

(* --------------------------- Python values ---------------------------- *)
None == [kind |-> "None"]
PyBool(b) == [kind |-> "bool", val |-> b]
PyTuple(t) == [kind |-> "tuple", val |-> t]
PyStr(n) == [kind |-> "str", val |-> n]
PyInt(n) == [kind |-> "int", val |-> n]
PyBuffer(size) == [kind |-> "buffer", val |-> size]
NoError == "NoError"

Range(s) == {s[i] : i \in 1..Len(s)}
SeqsUpTo(S, n) == UNION {[1..k -> S] : k \in 0..n}

VARIABLES
  cameras,   \* the scene's cameras, in listing order
  tkeys,     \* tkeys[c]: the frames with a transform keyframe on camera c
  fkeys,     \* fkeys[c]: the frames with a focal length keyframe on camera c
  kcall,     \* the last camera call: what was called and what it returned
  strategy,  \* the capture method the instance overrides, "none" if none
  overrides_did_end,  \* whether the instance overrides capture_did_end
  session,   \* the video feed: Idle, Starting, Capturing, Stopping
  capture_mode,    \* vcserver.capture_mode
  capture_width,   \* vcserver.capture_width
  capture_height,  \* vcserver.capture_height
  viewport,  \* the size the viewport has now
  allocated, \* the pixel buffers the instance holds
  exposed,   \* the buffer whose address the last get_capture_pointer returned
  writing,   \* the buffer a get_capture_pointer in progress renders into
  ccall,     \* the last capture call: what was called and what it returned
  script_impl,  \* the script methods the instance overrides: none, labels, both
  listed,    \* the labels get_script_labels returned last, None before
  scall,     \* the last script call: what was called and what it returned
  log,       \* the script errors printed so far
  server,    \* the VCServer: serving, stopping, stopped
  inflight,  \* the operations the server has in flight
  client,    \* whether a client app is connected
  stop_at,   \* what was in flight when stop_serving() was called
  feedback,  \* the feedback method called last
  pc,        \* pc[t]: where dispatcher thread t is: idle, blocked, executing
  request,   \* request[t]: the method and the camera of the call t has made
  context,   \* the calls marshaled onto the execution context, oldest first
  namespace, \* the methods the subclass of VCBase defines
  instance,  \* what calling the subclass gave: none yet, instance, TypeError
  frame      \* the last frame request made of a method the instance inherits

camvars == <<cameras, tkeys, fkeys, kcall>>
capvars == <<strategy, overrides_did_end, session, capture_mode, capture_width,
             capture_height, viewport, allocated, exposed, writing, ccall>>
scrvars == <<script_impl, listed, scall, log>>
dspvars == <<pc, request, context>>
clsvars == <<namespace, instance, frame>>
srvvars == <<server, inflight, client, stop_at, feedback, dspvars, clsvars>>
vars == <<camvars, capvars, scrvars, srvvars>>

(* ------------------------- camera methods ----------------------------- *)
\* get_scene_cameras: the names of all the scene cameras.
get_scene_cameras == PyTuple(cameras)

get_camera_exists_first(camera_name) ==
  PyBool(Len(cameras) > 0 /\ cameras[1] = camera_name)
\* get_camera_exists: True if the camera exists in the scene, False otherwise.
get_camera_exists(camera_name) ==
  PyBool(\E i \in 1..Len(cameras) : cameras[i] = camera_name)

\* get_camera_has_keys: (transform_has_keys, focal_length_has_keys).
get_camera_has_keys(camera_name) ==
  PyTuple(<<tkeys[camera_name] # {}, fkeys[camera_name] # {}>>)

\* The frames a keyframe write puts a key on.  The docstring pairs the
\* sequences element by element, "a value for every keyframe".  The source
\* has no check of the two lengths and no error for them: for sequences of
\* different lengths the only code is the base body, `pass`, which sets no
\* key and returns None.
KeyedFrames_zip(keyframes, values) ==
  {keyframes[i] : i \in (1..Len(keyframes)) \cap (1..Len(values))}
KeyedFrames(keyframes, values) ==
  IF Len(keyframes) = Len(values) THEN Range(keyframes) ELSE {}

set_camera_flen_keys_both(camera_name, keyframes, focal_length_values) ==
  /\ fkeys' = [fkeys EXCEPT ![camera_name] =
                  @ \cup KeyedFrames(keyframes, focal_length_values)]
  /\ tkeys' = [tkeys EXCEPT ![camera_name] =
                  @ \cup KeyedFrames(keyframes, focal_length_values)]
\* set_camera_flen_keys: keyframes on the focal length of the camera.
set_camera_flen_keys(camera_name, keyframes, focal_length_values) ==
  /\ fkeys' = [fkeys EXCEPT ![camera_name] =
                  @ \cup KeyedFrames(keyframes, focal_length_values)]
  /\ tkeys' = tkeys

\* set_camera_transform_keys: keyframes on the transform of the camera.
set_camera_transform_keys(camera_name, keyframes, transform_matrix_values) ==
  /\ tkeys' = [tkeys EXCEPT ![camera_name] =
                  @ \cup KeyedFrames(keyframes, transform_matrix_values)]
  /\ fkeys' = fkeys

remove_camera_keys_transform_only(camera_name) ==
  /\ tkeys' = [tkeys EXCEPT ![camera_name] = {}]
  /\ fkeys' = fkeys
\* remove_camera_keys: removes all transform and focal length keyframes.
remove_camera_keys(camera_name) ==
  /\ tkeys' = [tkeys EXCEPT ![camera_name] = {}]
  /\ fkeys' = [fkeys EXCEPT ![camera_name] = {}]

\* create_new_camera: a new camera in the scene, and its name.
create_new_camera(new_name) ==
  /\ new_name \notin Range(cameras)
  /\ cameras' = Append(cameras, new_name)

(* ------------------------ calls of the methods ------------------------ *)
\* again: the call before was the same method on the same camera.
KCall(op, cam, lenF, lenV, ret) ==
  /\ kcall' = [op |-> op, cam |-> cam, lenF |-> lenF, lenV |-> lenV,
               ret |-> ret, raised |-> NoError,
               again |-> (kcall.op = op /\ kcall.cam = cam)]
  /\ UNCHANGED <<capvars, scrvars, srvvars>>

CallGetSceneCameras ==
  /\ KCall("get_scene_cameras", "", 0, 0, get_scene_cameras)
  /\ UNCHANGED <<cameras, tkeys, fkeys>>

CallGetCameraExists ==
  \E n \in CamNames :
    /\ KCall("get_camera_exists", n, 0, 0, get_camera_exists(n))
    /\ UNCHANGED <<cameras, tkeys, fkeys>>

CallGetCameraHasKeys ==
  \E c \in Range(cameras) :
    /\ KCall("get_camera_has_keys", c, 0, 0, get_camera_has_keys(c))
    /\ UNCHANGED <<cameras, tkeys, fkeys>>

CallSetCameraFlenKeys ==
  \E c \in Range(cameras), kf \in SeqsUpTo(Frames, MaxLen),
     vs \in ValueSeqs :
    /\ set_camera_flen_keys(c, kf, vs)
    /\ KCall("set_camera_flen_keys", c, Len(kf), Len(vs), None)
    /\ UNCHANGED cameras

CallSetCameraTransformKeys ==
  \E c \in Range(cameras), kf \in SeqsUpTo(Frames, MaxLen),
     ms \in ValueSeqs :
    /\ set_camera_transform_keys(c, kf, ms)
    /\ KCall("set_camera_transform_keys", c, Len(kf), Len(ms), None)
    /\ UNCHANGED cameras

CallRemoveCameraKeys ==
  \E c \in Range(cameras) :
    /\ remove_camera_keys(c)
    /\ KCall("remove_camera_keys", c, 0, 0, None)
    /\ UNCHANGED cameras

CallCreateNewCamera ==
  \E n \in CamNames :
    /\ create_new_camera(n)
    /\ KCall("create_new_camera", n, 0, 0, PyStr(n))
    /\ UNCHANGED <<tkeys, fkeys>>

NextCameras ==
  \/ CallGetSceneCameras
  \/ CallGetCameraExists
  \/ CallGetCameraHasKeys
  \/ CallSetCameraFlenKeys
  \/ CallSetCameraTransformKeys
  \/ CallRemoveCameraKeys
  \/ CallCreateNewCamera


(* -------------------------- viewport capture -------------------------- *)
CAPMODE_SCREENSHOT == "CAPMODE_SCREENSHOT"
CAPMODE_BUFFER == "CAPMODE_BUFFER"
CAPMODE_BUFFER_POINTER == "CAPMODE_BUFFER_POINTER"
CapModes == {CAPMODE_SCREENSHOT, CAPMODE_BUFFER, CAPMODE_BUFFER_POINTER}
FrameOps == {"get_capture_coords", "get_capture_buffer", "get_capture_pointer"}

\* vcserver.set_capture_resolution(), vcserver.set_capture_mode()
set_capture_resolution(size) ==
  capture_width' = size[1] /\ capture_height' = size[2]
set_capture_mode(mode) == capture_mode' = mode
capture_resolution == <<capture_width, capture_height>>

\* The resolution a frame request leaves.  An overriding method: "If the
\* capture resolution has changed in size from the previous call to this
\* method, vcserver.set_capture_resolution() must be called here before
\* returning".  The base body, `pass`, calls nothing.
ResolutionAfter_stale(overridden) == capture_resolution
ResolutionAfter(overridden) ==
  IF overridden /\ viewport # capture_resolution
  THEN viewport ELSE capture_resolution

\* What the three methods return: the payload of their mode when the instance
\* overrides them, and None as the base body `pass` does.
get_capture_coords(overridden) ==
  IF overridden THEN PyTuple(<<0, 0>>) ELSE None

get_capture_buffer_always(overridden) == PyBuffer(viewport)
get_capture_buffer(overridden) ==
  IF overridden THEN PyBuffer(viewport) ELSE None

get_capture_pointer(overridden, buffer) ==
  IF overridden THEN PyInt(buffer) ELSE None

\* The buffers held when get_capture_pointer returns the address of `buffer`:
\* "The buffer must be kept allocated untill the next call to this function".
KeptOnReturn_freed(buffer) == allocated \ {buffer}
KeptOnReturn(buffer) == allocated

CCall(op, overridden, ret) ==
  ccall' = [op |-> op, at |-> session, overridden |-> overridden, ret |-> ret,
            raised |-> NoError, before |-> capture_resolution,
            view |-> viewport, after |-> <<capture_width', capture_height'>>]

\* A client app requests a video feed from the viewport.
RequestFeed ==
  /\ server = "serving"
  /\ session = "Idle"
  /\ session' = "Starting"
  /\ UNCHANGED <<camvars, scrvars, srvvars>>
  /\ UNCHANGED <<strategy, overrides_did_end, capture_mode, capture_width,
                 capture_height, viewport, allocated, exposed, writing, ccall>>

\* capture_will_start: "Calling vcserver.set_capture_resolution() and
\* vcserver.set_capture_mode() here is a must".  An instance sets the mode of
\* the method it overrides; one that overrides none sets any mode.
CallCaptureWillStart ==
  /\ session = "Starting"
  /\ set_capture_resolution(viewport)
  /\ \E mode \in CapModes :
       /\ strategy # "none" => mode = strategy
       /\ set_capture_mode(mode)
  /\ session' = "Capturing"
  /\ UNCHANGED <<camvars, scrvars, srvvars>>
  /\ UNCHANGED <<strategy, overrides_did_end, viewport, allocated, exposed,
                 writing, ccall>>

\* The viewport changes size (a window resize).
ViewportResize ==
  /\ \E size \in Sizes \ {viewport} : viewport' = size
  /\ UNCHANGED <<camvars, scrvars, srvvars>>
  /\ UNCHANGED <<strategy, overrides_did_end, session, capture_mode,
                 capture_width, capture_height, allocated, exposed, writing,
                 ccall>>

\* A frame request runs the overriding method only during a capture; the
\* inherited body can be called in any state.  One frame request at a time.
CanCall(overridden) ==
  /\ writing = NoBuffer
  /\ overridden => session = "Capturing"

CallGetCaptureCoords ==
  LET overridden == strategy = CAPMODE_SCREENSHOT IN
  /\ CanCall(overridden)
  /\ set_capture_resolution(ResolutionAfter(overridden))
  /\ CCall("get_capture_coords", overridden, get_capture_coords(overridden))
  /\ UNCHANGED <<camvars, scrvars, srvvars>>
  /\ UNCHANGED <<strategy, overrides_did_end, session, capture_mode, viewport,
                 allocated, exposed, writing>>

CallGetCaptureBuffer ==
  LET overridden == strategy = CAPMODE_BUFFER IN
  /\ CanCall(overridden)
  /\ set_capture_resolution(ResolutionAfter(overridden))
  /\ CCall("get_capture_buffer", overridden, get_capture_buffer(overridden))
  /\ UNCHANGED <<camvars, scrvars, srvvars>>
  /\ UNCHANGED <<strategy, overrides_did_end, session, capture_mode, viewport,
                 allocated, exposed, writing>>

\* get_capture_pointer as inherited: `pass`.
CallGetCapturePointer ==
  /\ strategy # CAPMODE_BUFFER_POINTER
  /\ CanCall(FALSE)
  /\ set_capture_resolution(ResolutionAfter(FALSE))
  /\ CCall("get_capture_pointer", FALSE, get_capture_pointer(FALSE, NoBuffer))
  /\ UNCHANGED <<camvars, scrvars, srvvars>>
  /\ UNCHANGED <<strategy, overrides_did_end, session, capture_mode, viewport,
                 allocated, exposed, writing>>

\* get_capture_pointer as overridden, first half: the instance picks the
\* buffer it renders this frame into, a new one or one it holds (the one whose
\* address it returned last among them), and may let go of the others: the
\* next call has come.
GetCapturePointerRender ==
  /\ strategy = CAPMODE_BUFFER_POINTER
  /\ CanCall(TRUE)
  /\ \E buffer \in Buffers, keep \in BOOLEAN :
       /\ writing' = buffer
       /\ allocated' = IF keep THEN allocated \cup {buffer} ELSE {buffer}
  /\ UNCHANGED <<camvars, scrvars, srvvars>>
  /\ UNCHANGED <<strategy, overrides_did_end, session, capture_mode,
                 capture_width, capture_height, viewport, exposed, ccall>>

\* get_capture_pointer as overridden, second half: the frame is rendered and
\* the address of its buffer is returned.
GetCapturePointerReturn ==
  /\ writing # NoBuffer
  /\ set_capture_resolution(ResolutionAfter(TRUE))
  /\ CCall("get_capture_pointer", TRUE, get_capture_pointer(TRUE, writing))
  /\ allocated' = KeptOnReturn(writing)
  /\ exposed' = writing
  /\ writing' = NoBuffer
  /\ UNCHANGED <<camvars, scrvars, srvvars>>
  /\ UNCHANGED <<strategy, overrides_did_end, session, capture_mode, viewport>>

\* The client app stops the viewport video feed.
StopFeed ==
  /\ session = "Capturing"
  /\ writing = NoBuffer
  /\ session' = "Stopping"
  /\ UNCHANGED <<camvars, scrvars, srvvars>>
  /\ UNCHANGED <<strategy, overrides_did_end, capture_mode, capture_width,
                 capture_height, viewport, allocated, exposed, writing, ccall>>

\* capture_did_end: optional, "Usefull to destroy a pixel buffer"; inherited,
\* it is `pass`.  The buffers the instance holds when it has returned.
capture_did_end_keeps(overridden) == allocated
capture_did_end(overridden) == IF overridden THEN {} ELSE allocated

\* The address returned last is of no use after the feed.
CallCaptureDidEnd ==
  /\ session = "Stopping"
  /\ allocated' = capture_did_end(overrides_did_end)
  /\ exposed' = NoBuffer
  /\ session' = "Idle"
  /\ UNCHANGED <<camvars, scrvars, srvvars>>
  /\ UNCHANGED <<strategy, overrides_did_end, capture_mode, capture_width,
                 capture_height, viewport, writing, ccall>>

NextCapture ==
  \/ RequestFeed
  \/ CallCaptureWillStart
  \/ ViewportResize
  \/ CallGetCaptureCoords
  \/ CallGetCaptureBuffer
  \/ CallGetCapturePointer
  \/ GetCapturePointerRender
  \/ GetCapturePointerReturn
  \/ StopFeed
  \/ CallCaptureDidEnd


(* --------------------------- custom scripts --------------------------- *)
\* The labels of an instance that overrides get_script_labels, and the script
\* numbers execute_script is called with.
ScriptLabels == [i \in 1..NumScripts |-> i]
Indexes == (-1)..(NumScripts + 2)

\* get_script_labels: the labels when overridden; inherited, `pass`.
get_script_labels(overridden) ==
  IF overridden THEN PyTuple(ScriptLabels) ELSE None

\* The positions of the listing returned last: 0-based, none before a listing.
ValidIndex(script_index) ==
  listed # None /\ script_index \in 0..(Len(listed.val) - 1)

execute_script_checked(overridden, script_index, fails) ==
  IF ~ValidIndex(script_index)
  THEN [ret |-> None, raised |-> "ValidationError"]
  ELSE [ret |-> PyBool(overridden /\ ~fails), raised |-> NoError]
execute_script_propagates(overridden, script_index, fails) ==
  IF overridden /\ fails
  THEN [ret |-> None, raised |-> "Exception"]
  ELSE [ret |-> PyBool(overridden /\ script_index \in 0..(NumScripts - 1)),
        raised |-> NoError]
\* execute_script: inherited, `return False`.  Overridden: "must return True
\* if the script executed correctly, False if there where errors".
execute_script(overridden, script_index, fails) ==
  [ret |-> PyBool(overridden /\ script_index \in 0..(NumScripts - 1) /\ ~fails),
   raised |-> NoError]

CallGetScriptLabels ==
  LET overridden == script_impl \in {"labels", "both"} IN
  /\ listed' = get_script_labels(overridden)
  /\ scall' = [op |-> "get_script_labels", index |-> 0, camera |-> "",
               ran |-> FALSE, failed |-> FALSE,
               ret |-> get_script_labels(overridden), raised |-> NoError]
  /\ UNCHANGED <<script_impl, log, camvars, capvars, srvvars>>

\* The app asks for a script of the listing it was given; the inherited
\* method can be called at any time.  fails: the script has errors, which the
\* overriding method prints ("It's recommended to print any errors").
CallExecuteScript ==
  LET overridden == script_impl = "both" IN
  \E script_index \in Indexes, current_camera \in CamNames, fails \in BOOLEAN :
    LET ran == overridden /\ script_index \in 0..(NumScripts - 1)
        out == execute_script(overridden, script_index, fails) IN
    /\ overridden => listed # None
    /\ fails => (ran /\ log < MaxLog)
    /\ log' = IF fails THEN log + 1 ELSE log
    /\ scall' = [op |-> "execute_script", index |-> script_index,
                 camera |-> current_camera, ran |-> ran, failed |-> fails,
                 ret |-> out.ret, raised |-> out.raised]
    /\ UNCHANGED <<script_impl, listed, camvars, capvars, srvvars>>

NextScripts ==
  \/ CallGetScriptLabels
  \/ CallExecuteScript

(* ------------------------- server and feedback ------------------------ *)
\* "This method is called when all services have been completely stopped":
\* no operation in flight, no video feed, no client connected.
AllServicesStopped_operations_only == inflight = 0
AllServicesStopped == inflight = 0 /\ session = "Idle" /\ ~client

\* client_connected: called whenever a client app connects; `pass`.
ClientConnected ==
  /\ server = "serving" /\ ~client
  /\ client' = TRUE
  /\ feedback' = "client_connected"
  /\ UNCHANGED <<server, inflight, stop_at, dspvars, clsvars,
                 camvars, capvars, scrvars>>

\* client_disconnected: called whenever a client app disconnects, "even if
\* it's disconnected by calling stop_serving()"; `pass`.
ClientDisconnected ==
  /\ server # "stopped" /\ client
  /\ client' = FALSE
  /\ feedback' = "client_disconnected"
  /\ UNCHANGED <<server, inflight, stop_at, dspvars, clsvars,
                 camvars, capvars, scrvars>>

\* The server takes up an operation for the client, and completes it.
BeginOperation ==
  /\ server = "serving" /\ inflight < MaxInflight
  /\ inflight' = inflight + 1
  /\ UNCHANGED <<server, client, stop_at, feedback, dspvars, clsvars,
                 camvars, capvars,
                 scrvars>>

CompleteOperation ==
  /\ inflight > 0
  /\ inflight' = inflight - 1
  /\ UNCHANGED <<server, client, stop_at, feedback, dspvars, clsvars,
                 camvars, capvars,
                 scrvars>>

\* stop_serving(): "doesn't instantly stop the server, it is done in the
\* background".
StopServing ==
  /\ server = "serving"
  /\ server' = "stopping"
  /\ stop_at' = [inflight |-> inflight, session |-> session, client |-> client]
  /\ UNCHANGED <<inflight, client, feedback, dspvars, clsvars,
                 camvars, capvars, scrvars>>

\* server_did_stop: `pass`.
ServerDidStop ==
  /\ server = "stopping"
  /\ AllServicesStopped
  /\ server' = "stopped"
  /\ feedback' = "server_did_stop"
  /\ UNCHANGED <<inflight, client, stop_at, dspvars, clsvars,
                 camvars, capvars, scrvars>>

NextServer ==
  \/ ClientConnected
  \/ ClientDisconnected
  \/ BeginOperation
  \/ CompleteOperation
  \/ StopServing
  \/ ServerDidStop
  \/ RequestFeed
  \/ CallCaptureWillStart
  \/ StopFeed
  \/ CallCaptureDidEnd

(* --------------------- the dispatch of the calls ---------------------- *)
\* "Methods in this class will be called asyncronously from
\* virtucamera.VCServer as needed."  The threads that receive the client's
\* requests marshal each call onto one execution context and wait for it.
Threads == {"io1", "io2"}
NoRequest == [op |-> "none", cam |-> ""]
\* The methods that change the scene, each against the camera it names.
MutatingOps == {"create_new_camera", "set_camera_flen_keys",
                "set_camera_transform_keys", "remove_camera_keys"}
Executing == {t \in Threads : pc[t] = "executing"}

\* The execution context takes up a call only when it runs none.
ContextFree_reentrant == TRUE
ContextFree == Executing = {}

\* A thread calls a method: the call is marshaled and the thread blocks.
Dispatch(t) ==
  /\ pc[t] = "idle"
  /\ \E op \in MutatingOps, c \in CamNames :
       /\ IF op = "create_new_camera" THEN c \notin Range(cameras)
                                      ELSE c \in Range(cameras)
       /\ request' = [request EXCEPT ![t] = [op |-> op, cam |-> c]]
  /\ pc' = [pc EXCEPT ![t] = "blocked"]
  /\ context' = Append(context, t)
  /\ UNCHANGED <<server, inflight, client, stop_at, feedback, clsvars, camvars,
                 capvars, scrvars>>

\* The execution context takes up the oldest call marshaled onto it.
BeginCall(t) ==
  /\ context # <<>> /\ Head(context) = t
  /\ ContextFree
  /\ pc' = [pc EXCEPT ![t] = "executing"]
  /\ context' = Tail(context)
  /\ UNCHANGED <<request, server, inflight, client, stop_at, feedback, clsvars,
                 camvars, capvars, scrvars>>

\* The keyframes and the values the client sends with a keyframe write: of a
\* call that is marshaled the model follows where it runs, not what it writes.
SentKeyframes == {<<1>>}
SentValues == {<<KeyValue>>}

\* The method of the call, with the arguments the client sent.
Method(op, c) ==
  CASE op = "create_new_camera" ->
         /\ cameras' = IF c \in Range(cameras) THEN cameras
                                               ELSE Append(cameras, c)
         /\ UNCHANGED <<tkeys, fkeys>>
         /\ kcall' = [op |-> op, cam |-> c, lenF |-> 0, lenV |-> 0,
                      ret |-> PyStr(c), raised |-> NoError,
                      again |-> (kcall.op = op /\ kcall.cam = c)]
    [] op = "remove_camera_keys" ->
         /\ remove_camera_keys(c)
         /\ UNCHANGED cameras
         /\ kcall' = [op |-> op, cam |-> c, lenF |-> 0, lenV |-> 0,
                      ret |-> None, raised |-> NoError,
                      again |-> (kcall.op = op /\ kcall.cam = c)]
    [] op = "set_camera_flen_keys" ->
         \E kf \in SentKeyframes, vs \in SentValues :
           /\ set_camera_flen_keys(c, kf, vs)
           /\ UNCHANGED cameras
           /\ kcall' = [op |-> op, cam |-> c, lenF |-> Len(kf),
                        lenV |-> Len(vs), ret |-> None, raised |-> NoError,
                        again |-> (kcall.op = op /\ kcall.cam = c)]
    [] op = "set_camera_transform_keys" ->
         \E kf \in SentKeyframes, ms \in SentValues :
           /\ set_camera_transform_keys(c, kf, ms)
           /\ UNCHANGED cameras
           /\ kcall' = [op |-> op, cam |-> c, lenF |-> Len(kf),
                        lenV |-> Len(ms), ret |-> None, raised |-> NoError,
                        again |-> (kcall.op = op /\ kcall.cam = c)]

\* The method returns on the execution context and the thread that called
\* it goes on with the return value.
CompleteCall(t) ==
  /\ pc[t] = "executing"
  /\ Method(request[t].op, request[t].cam)
  /\ pc' = [pc EXCEPT ![t] = "idle"]
  /\ request' = [request EXCEPT ![t] = NoRequest]
  /\ UNCHANGED <<context, server, inflight, client, stop_at, feedback, clsvars,
                 capvars, scrvars>>

DispatchCall == \E t \in Threads : Dispatch(t)
ContextBegin == \E t \in Threads : BeginCall(t)
ContextComplete == \E t \in Threads : CompleteCall(t)

NextDispatch ==
  \/ DispatchCall
  \/ ContextBegin
  \/ ContextComplete

(* ------------------------- the abstract class ------------------------- *)
\* The methods of VCBase marked @abstractmethod, and the others.
PlaybackMethods == {"get_playback_state", "get_playback_fps", "set_frame",
                    "set_playback_range", "start_playback", "stop_playback"}
CameraMethods == {"get_scene_cameras", "get_camera_exists",
                  "get_camera_has_keys", "get_camera_focal_length",
                  "get_camera_transform", "set_camera_focal_length",
                  "set_camera_transform", "set_camera_flen_keys",
                  "set_camera_transform_keys", "remove_camera_keys",
                  "create_new_camera"}
AbstractMethods ==
  PlaybackMethods \cup CameraMethods
    \cup {"capture_will_start", "look_through_camera"}
FeedbackMethods == {"client_connected", "client_disconnected",
                    "current_camera_changed", "server_did_stop"}
ScriptMethods == {"get_script_labels", "execute_script"}
OptionalMethods ==
  {"capture_did_end"} \cup FrameOps \cup FeedbackMethods \cup ScriptMethods

\* ABCMeta: the abstract methods a class is left with are those of its base
\* that its own namespace does not define.
abstractmethods_with_strategy(ns) ==
  (AbstractMethods \cup {"get_capture_coords"}) \ ns
abstractmethods(ns) == AbstractMethods \ ns

\* The subclasses followed: all the abstract methods but a few, and a few of
\* the others.
SubsetsUpTo(S, n) == {m \in SUBSET S : Cardinality(m) <= n}
Namespaces ==
  {(AbstractMethods \ missing) \cup extra :
     missing \in SubsetsUpTo(AbstractMethods, MaxMissing),
     extra \in SubsetsUpTo(OptionalMethods, MaxOptional)}
\* The methods defined by an instance as the other parts describe it.
NamespaceOf(strat, did_end, impl) ==
  AbstractMethods
    \cup (IF strat = CAPMODE_SCREENSHOT THEN {"get_capture_coords"} ELSE {})
    \cup (IF strat = CAPMODE_BUFFER THEN {"get_capture_buffer"} ELSE {})
    \cup (IF strat = CAPMODE_BUFFER_POINTER THEN {"get_capture_pointer"}
                                            ELSE {})
    \cup (IF did_end THEN {"capture_did_end"} ELSE {})
    \cup (IF impl \in {"labels", "both"} THEN {"get_script_labels"} ELSE {})
    \cup (IF impl = "both" THEN {"execute_script"} ELSE {})
NoFrame == [op |-> "none", ret |-> None]

\* The subclass is called: object.__new__ raises TypeError for a class with
\* abstract methods left.
Instantiate ==
  /\ instance = "none"
  /\ instance' = IF abstractmethods(namespace) = {} THEN "instance"
                                                    ELSE "TypeError"
  /\ UNCHANGED <<namespace, frame, server, inflight, client, stop_at, feedback,
                 dspvars, camvars, capvars, scrvars>>

\* A frame request of a capture method the instance inherits from VCBase.
InheritedFrameRequest ==
  /\ instance = "instance"
  /\ \E op \in FrameOps :
       LET overridden == op \in namespace IN
       /\ ~overridden
       /\ frame' = [op |-> op,
                    ret |-> CASE op = "get_capture_coords" ->
                                   get_capture_coords(overridden)
                              [] op = "get_capture_buffer" ->
                                   get_capture_buffer(overridden)
                              [] op = "get_capture_pointer" ->
                                   get_capture_pointer(overridden, NoBuffer)]
  /\ UNCHANGED <<namespace, instance, server, inflight, client, stop_at,
                 feedback, dspvars, camvars, capvars, scrvars>>

NextClasses ==
  \/ Instantiate
  \/ InheritedFrameRequest

(* ---------------------------- the program ----------------------------- *)
\* The scene, the feed and the server at the construction of an instance
\* whose class overrides the capture methods as one of strategies and
\* did_ends, the script methods as one of impls.
InitScene(strategies, did_ends, impls) ==
  /\ cameras = <<>>
  /\ tkeys = [c \in CamNames |-> {}]
  /\ fkeys = [c \in CamNames |-> {}]
  /\ kcall = [op |-> "none", cam |-> "", lenF |-> 0, lenV |-> 0, ret |-> None,
              raised |-> NoError, again |-> FALSE]
  /\ strategy \in strategies
  /\ overrides_did_end \in did_ends
  /\ session = "Idle"
  /\ capture_mode = "unset"
  /\ capture_width = 0
  /\ capture_height = 0
  /\ viewport = <<640, 480>>
  /\ allocated = {}
  /\ exposed = NoBuffer
  /\ writing = NoBuffer
  /\ ccall = [op |-> "none", at |-> "Idle", overridden |-> FALSE, ret |-> None,
              raised |-> NoError, before |-> <<0, 0>>, view |-> <<640, 480>>,
              after |-> <<0, 0>>]
  /\ script_impl \in impls
  /\ listed = None
  /\ scall = [op |-> "none", index |-> 0, camera |-> "", ran |-> FALSE,
              failed |-> FALSE, ret |-> None, raised |-> NoError]
  /\ log = 0
  /\ server = "serving"
  /\ inflight = 0
  /\ client = FALSE
  /\ stop_at = [inflight |-> 0, session |-> "Idle", client |-> FALSE]
  /\ feedback = "none"
  /\ pc = [t \in Threads |-> "idle"]
  /\ request = [t \in Threads |-> NoRequest]
  /\ context = <<>>

\* The state after construction of an instance.
InitOf(strategies, did_ends, impls) ==
  /\ InitScene(strategies, did_ends, impls)
  /\ namespace = NamespaceOf(strategy, overrides_did_end, script_impl)
  /\ instance = "instance"
  /\ frame = NoFrame

Strategies == {"none"} \cup CapModes
ScriptImpls == {"none", "labels", "both"}
Init == InitOf(Strategies, BOOLEAN, ScriptImpls)

Next ==
  \/ NextCameras \/ NextCapture \/ NextScripts \/ NextServer \/ NextDispatch
  \/ NextClasses

Spec == Init /\ [][Next]_vars

\* The parts of the class taken one at a time; the methods of a part read
\* nothing of what the instance overrides elsewhere.
InitCameras == InitOf({"none"}, {FALSE}, {"none"})
InitCapture == InitOf(Strategies, BOOLEAN, {"none"})
InitScripts == InitOf({"none"}, {FALSE}, ScriptImpls)
SpecCameras == InitCameras /\ [][NextCameras]_vars
SpecCapture == InitCapture /\ [][NextCapture]_vars
SpecScripts == InitScripts /\ [][NextScripts]_vars
SpecDispatch == InitCameras /\ [][NextDispatch]_vars

\* A subclass is defined, then called; of the instance this part follows the
\* methods it inherits.
InitClasses ==
  /\ InitScene({"none"}, {FALSE}, {"none"})
  /\ namespace \in Namespaces
  /\ instance = "none"
  /\ frame = NoFrame
SpecClasses == InitClasses /\ [][NextClasses]_vars

\* Once stop_serving() has been called the server ends the feed and drops the
\* client; a method called returns and an operation in flight completes.
DrainFeed == server = "stopping" /\ StopFeed
DrainClient == server = "stopping" /\ ClientDisconnected
SpecServer ==
  /\ InitCapture /\ [][NextServer]_vars
  /\ WF_vars(CompleteOperation)
  /\ WF_vars(CallCaptureWillStart)
  /\ WF_vars(CallCaptureDidEnd)
  /\ WF_vars(DrainFeed)
  /\ WF_vars(DrainClient)
  /\ WF_vars(ServerDidStop)

(* ======================= camera registry, keyframes =================== *)
SetKeyOps == {"set_camera_flen_keys", "set_camera_transform_keys"}
\* A step that is a keyframe write called with sequences of different lengths.
MismatchedWrite == kcall'.op \in SetKeyOps /\ kcall'.lenF # kcall'.lenV
KeysUnchanged == tkeys' = tkeys /\ fkeys' = fkeys /\ cameras' = cameras

HasKeysVal(c) == get_camera_has_keys(c).val
\* A step that is a keyframe write on cam with as many values as frames.
PairedWrite(op, cam) ==
  kcall'.op = op /\ kcall'.cam = cam /\ kcall'.lenF = kcall'.lenV

RequestOutsideCapture == ccall.op \in FrameOps /\ ccall.at # "Capturing"

OneCallPerCamera ==
  \A t1 \in Executing, t2 \in Executing :
    t1 # t2 => request[t1].cam # request[t2].cam
\* A thread that has made a call makes no other and goes on only when the
\* method of its call has returned.
BlocksUntilComplete ==
  \A t \in Threads :
    pc[t] # "idle" =>
      /\ pc'[t] # "idle" => request'[t] = request[t]
      /\ pc'[t] = "idle" =>
           /\ pc[t] = "executing"
           /\ kcall'.op = request[t].op /\ kcall'.cam = request[t].cam

SessionOrder ==
  session' # session =>
    <<session, session'>> \in {<<"Idle", "Starting">>,
                               <<"Starting", "Capturing">>,
                               <<"Capturing", "Stopping">>,
                               <<"Stopping", "Idle">>}

C13_InstantiableIffAllAbstractOverridden ==
  /\ Cardinality(PlaybackMethods) = 6 /\ Cardinality(CameraMethods) = 11
  /\ Cardinality(AbstractMethods) = 19
  /\ AbstractMethods \cap OptionalMethods = {}
  /\ instance # "none" =>
       (instance = "instance" <=> AbstractMethods \subseteq namespace)
  /\ (frame.op # "none" /\ namespace \cap FrameOps = {}) => frame.ret = None
\* An instance of a subclass that overrides the 19 abstract methods and no
\* other has answered a frame request.
C13_Witness ==
  /\ instance = "instance" /\ namespace = AbstractMethods
  /\ frame.op \in FrameOps /\ frame.ret = None
\* A subclass that leaves an abstract method out has raised TypeError.
C13_WitnessTypeError ==
  /\ instance = "TypeError" /\ abstractmethods(namespace) # {}
  /\ namespace \cap FrameOps # {}

====
